---------------------------- MODULE Spec2Model ----------------------------
(***************************************************************************)
(* Model of video_dedupe.py: the hotkey callback on_activate, the worker   *)
(* thread process_video it starts, the filename parser parse_name_parts    *)
(* and the record file processed_videos.txt.                               *)
(*                                                                         *)
(* Python strings are sequences of one-character strings, so that strip,   *)
(* split, splitext, the regular expression and lower are computed on the   *)
(* characters.  The record file is the sequence of its lines, each line    *)
(* ending in the newline character that process_video writes.              *)
(***************************************************************************)
EXTENDS Integers, Sequences, FiniteSets

VARIABLES
    file,       \* RECORD_FILE: the lines written so far
    pc,         \* per worker thread: "idle", "started", "append" or "done"
    path,       \* per worker thread: the argument of process_video
    records,    \* per worker thread: local records of process_video
    key,        \* per worker thread: local key of process_video
    outcome,    \* per worker thread: how the submission ended
    named,      \* per worker thread: the filename the Duplicate Colors alert names
    listening   \* the GlobalHotKeys listener of __main__ is running

vars == <<file, pc, path, records, key, outcome, named, listening>>

-----------------------------------------------------------------------------
(* Bounds of the model *)

\* on_activate is fired only while the lines of the record file plus the
\* submissions in flight number at most MaxStored.
MaxStored == 2

\* The worker threads that can be alive at once.
Threads == {1, 2}

-----------------------------------------------------------------------------
(* Configuration, lines 21-40 *)

GRID == 4
VIDEO_WIDTH == 1920
VIDEO_HEIGHT == 1080

\* POSITIONS: j outer, i inner; int() of a positive quotient is its floor.
POSITIONS ==
    [k \in 1..(GRID * GRID) |->
        LET i == (k - 1) % GRID
            j == (k - 1) \div GRID
        IN  << ((i + 1) * VIDEO_WIDTH) \div (GRID + 1),
               ((j + 1) * VIDEO_HEIGHT) \div (GRID + 1) >>]

-----------------------------------------------------------------------------
(* Python values and string methods *)

\* Python's None among character sequences: no string is this sequence.
None == <<"None">>

\* Truth value of an optional string: None and '' are false.
Truthy(s) == s # None /\ s # <<>>

Whitespace == {" ", "\t", "\n", "\r"}
Digits == {"0", "1", "2", "3", "4", "5", "6", "7", "8", "9"}

\* s[a:] as a 1-based suffix
From(s, a) == SubSeq(s, a, Len(s))

RECURSIVE FirstNotIn(_, _, _)
\* The first index from i on whose character is outside class, or Len(s) + 1.
FirstNotIn(s, class, i) ==
    IF i > Len(s) \/ s[i] \notin class THEN i
    ELSE FirstNotIn(s, class, i + 1)

RECURSIVE LastNotIn(_, _, _)
\* The last index up to i whose character is outside class, or 0.
LastNotIn(s, class, i) ==
    IF i < 1 \/ s[i] \notin class THEN i
    ELSE LastNotIn(s, class, i - 1)

RECURSIVE Find(_, _, _)
\* str.find(c, i): the first index from i on that holds c, or 0.
Find(s, c, i) ==
    IF i > Len(s) THEN 0
    ELSE IF s[i] = c THEN i
    ELSE Find(s, c, i + 1)

RECURSIVE RFind(_, _, _)
\* str.rfind(c): the last index up to i that holds c, or 0.
RFind(s, c, i) ==
    IF i < 1 THEN 0
    ELSE IF s[i] = c THEN i
    ELSE RFind(s, c, i - 1)

\* str.strip(): drops leading and trailing whitespace.
Strip(s) ==
    LET a == FirstNotIn(s, Whitespace, 1)
        b == LastNotIn(s, Whitespace, Len(s))
    IN  IF a > b THEN <<>> ELSE SubSeq(s, a, b)

\* str.split(sep, 1): the list of one or two parts.
Split1(s, sep) ==
    LET at == Find(s, sep, 1)
    IN  IF at = 0 THEN <<s>>
        ELSE <<SubSeq(s, 1, at - 1), From(s, at + 1)>>

Upper == <<"A","B","C","D","E","F","G","H","I","J","K","L","M",
           "N","O","P","Q","R","S","T","U","V","W","X","Y","Z">>
LowerOf == <<"a","b","c","d","e","f","g","h","i","j","k","l","m",
             "n","o","p","q","r","s","t","u","v","w","x","y","z">>

LowerChar(c) ==
    LET at == Find(Upper, c, 1) IN IF at = 0 THEN c ELSE LowerOf[at]

\* Lower without the case mapping: the comparison of titles by == alone.
Lower_Identity(s) == s

\* str.lower()
Lower(s) == [i \in 1..Len(s) |-> LowerChar(s[i])]

\* os.path.basename: what follows the last separator.
Basename(p) == From(p, RFind(p, "/", Len(p)) + 1)

\* os.path.splitext(p)[0] of a name without separators: the name up to its
\* last dot, unless only dots precede that dot.
SplitextBase(p) ==
    LET dot == RFind(p, ".", Len(p))
    IN  IF dot > 0 /\ FirstNotIn(p, {"."}, 1) < dot
        THEN SubSeq(p, 1, dot - 1)
        ELSE p

-----------------------------------------------------------------------------
(* NAME_PATTERN and parse_name_parts, lines 26-31 and 57-66 *)

\* \d{4}-\d{2}-\d{2}_\d{2}-\d{2}-\d{2} at the start of s
DateShape == <<"d","d","d","d","-","d","d","-","d","d","_",
               "d","d","-","d","d","-","d","d">>

MatchesDate(s) ==
    /\ Len(s) >= Len(DateShape)
    /\ \A i \in 1..Len(DateShape) :
          IF DateShape[i] = "d" THEN s[i] \in Digits ELSE s[i] = DateShape[i]

\* (?:\([^\)]*\))? from index i of s: the index after the group.
AfterGroup(s, i) ==
    IF i <= Len(s) /\ s[i] = "(" /\ Find(s, ")", i) > 0
    THEN Find(s, ")", i) + 1
    ELSE i

\* NAME_PATTERN.match(base): the groups, or None.  Every quantifier is greedy
\* and the final (.*)$ takes whatever is left, so the first greedy attempt
\* succeeds whenever the date, one whitespace and one digit are there.
NameMatch(base) ==
    IF ~MatchesDate(base) THEN None
    ELSE LET d0 == Len(DateShape) + 1
             c0 == FirstNotIn(base, Whitespace, d0)
             c1 == FirstNotIn(base, Digits, c0)
             g0 == FirstNotIn(base, Whitespace, c1)
             g1 == AfterGroup(base, g0)
             t0 == FirstNotIn(base, Whitespace, g1)
         IN  IF c0 = d0 \/ c1 = c0 THEN None
             ELSE <<SubSeq(base, 1, Len(DateShape)),
                    SubSeq(base, c0, c1 - 1), From(base, t0)>>

\* parse_name_parts(filename) -> (date_part, code_part, text_part)
parse_name_parts(filename) ==
    LET base == SplitextBase(filename)
        m == NameMatch(base)
    IN  IF m # None
        THEN [date |-> m[1], code |-> m[2], text |-> Strip(m[3])]
        ELSE [date |-> None, code |-> None, text |-> base]

-----------------------------------------------------------------------------
(* The first frame and its colour signature, lines 158-175 *)

\* A decoded frame: h rows of w pixels in OpenCV's B, G, R order.  Every pixel
\* is bg except the one at column spot[1], row spot[2], which is fg.
PixelBGR(frame, x, y) == IF <<x, y>> = frame.spot THEN frame.fg ELSE frame.bg

\* cv2.cvtColor(frame, cv2.COLOR_BGR2RGB) at one pixel, then frame_rgb[y, x]
PixelRGB(frame, x, y) ==
    LET p == PixelBGR(frame, x, y) IN <<p[3], p[2], p[1]>>

HexDigit == <<"0","1","2","3","4","5","6","7","8","9","A","B","C","D","E","F">>

\* f"{n:02X}" for a uint8
Hex02(n) == <<HexDigit[(n \div 16) + 1], HexDigit[(n % 16) + 1]>>

\* One entry of colors: "#RRGGBB", or "#000000" outside the frame.
ColorAt(frame, pos) ==
    LET x == pos[1]
        y == pos[2]
    IN  IF 0 <= x /\ x < frame.w /\ 0 <= y /\ y < frame.h
        THEN LET c == PixelRGB(frame, x, y)
             IN  <<"#">> \o Hex02(c[1]) \o Hex02(c[2]) \o Hex02(c[3])
        ELSE <<"#", "0", "0", "0", "0", "0", "0">>

RECURSIVE JoinComma(_)
\* ",".join(colors)
JoinComma(colors) ==
    IF colors = <<>> THEN <<>>
    ELSE IF Len(colors) = 1 THEN colors[1]
    ELSE colors[1] \o <<",">> \o JoinComma(Tail(colors))

\* key of process_video for a readable first frame
ColorKey(frame) ==
    JoinComma([k \in 1..Len(POSITIONS) |-> ColorAt(frame, POSITIONS[k])])

-----------------------------------------------------------------------------
(* The record file, lines 120-126 and 183-185 *)

\* f"{fn}|{key}\n"
RecordLine(name, k) == name \o <<"|">> \o k \o <<"\n">>

\* The write with the line put before the lines of the file, as a rewrite of
\* the file in mode 'w' with the new record first would do.
AppendRecord_Prepend(f, name, k) == <<RecordLine(name, k)>> \o f

\* with open(RECORD_FILE, 'a') as f: f.write(line)
AppendRecord(f, name, k) == Append(f, RecordLine(name, k))

\* The parts of one line: line.strip().split('|', 1)
LineParts(line) == Split1(Strip(line), "|")

\* The loading loop with lines of one part skipped instead of unpacked.
LoadRecords_SkipBad(f) ==
    [error |-> FALSE,
     records |-> SelectSeq([i \in 1..Len(f) |-> LineParts(f[i])],
                           LAMBDA parts : Len(parts) = 2)]

\* The loading loop.  Unpacking a list of one part into rec_fn, rec_key
\* raises ValueError, which ends the loop and the submission.
LoadRecords(f) ==
    IF \E i \in 1..Len(f) : Len(LineParts(f[i])) # 2
    THEN [error |-> TRUE, records |-> <<>>]
    ELSE [error |-> FALSE,
          records |-> [i \in 1..Len(f) |-> LineParts(f[i])]]

-----------------------------------------------------------------------------
(* The six checks of process_video, lines 128-181 *)

\* 1) for rec_fn, _ in records: if rec_fn == fn
ExactHit(name, recs) == \E i \in 1..Len(recs) : recs[i][1] = name

\* Check 2 without its guard "if date_cur": None == None is a hit.
DateHit_NoGuard(date_cur, recs) ==
    \E i \in 1..Len(recs) : parse_name_parts(recs[i][1]).date = date_cur

\* 2) if date_cur: for ...: if date_rec == date_cur
DateHit(date_cur, recs) ==
    /\ Truthy(date_cur)
    /\ \E i \in 1..Len(recs) : parse_name_parts(recs[i][1]).date = date_cur

\* 3) if code_cur: for ...: if code_rec == code_cur
CodeHit(code_cur, recs) ==
    /\ Truthy(code_cur)
    /\ \E i \in 1..Len(recs) : parse_name_parts(recs[i][1]).code = code_cur

\* text_rec.lower() == text_cur.lower()
SameTextIgnoringCase(text_rec, text_cur) == Lower(text_rec) = Lower(text_cur)

\* 4) if text_cur: for ...: if text_rec and text_rec.lower() == text_cur.lower()
TitleHit(text_cur, recs) ==
    /\ Truthy(text_cur)
    /\ \E i \in 1..Len(recs) :
          LET text_rec == parse_name_parts(recs[i][1]).text
          IN  Truthy(text_rec) /\ SameTextIgnoringCase(text_rec, text_cur)

\* Checks 1 to 4 run inside one loop over the records: the first record that
\* any check hits decides the reason.
FilenameChecks_RecordFirst(name, recs) ==
    LET cur == parse_name_parts(name)
        hit(i) == \/ ExactHit(name, <<recs[i]>>)
                  \/ DateHit(cur.date, <<recs[i]>>)
                  \/ CodeHit(cur.code, <<recs[i]>>)
                  \/ TitleHit(cur.text, <<recs[i]>>)
        idx == {i \in 1..Len(recs) : hit(i)}
        one == <<recs[CHOOSE i \in idx : \A j \in idx : i <= j]>>
    IN  IF idx = {} THEN "Pass"
        ELSE IF ExactHit(name, one) THEN "ExactFilename"
        ELSE IF DateHit(cur.date, one) THEN "SameTimestamp"
        ELSE IF CodeHit(cur.code, one) THEN "SameCode"
        ELSE "SameTitle"

\* Checks 1 to 4 in the order of the code; each returns at its first hit.
FilenameChecks(name, recs) ==
    LET cur == parse_name_parts(name)
    IN  IF ExactHit(name, recs) THEN "ExactFilename"
        ELSE IF DateHit(cur.date, recs) THEN "SameTimestamp"
        ELSE IF CodeHit(cur.code, recs) THEN "SameCode"
        ELSE IF TitleHit(cur.text, recs) THEN "SameTitle"
        ELSE "Pass"

\* Check 6 on the first colour of the signature only.
ColorHit_FirstColour(k, recs) ==
    \E i \in 1..Len(recs) : SubSeq(recs[i][2], 1, 7) = SubSeq(k, 1, 7)

\* 6) for _, rec_key in records: if rec_key == key
ColorHit(k, recs) == \E i \in 1..Len(recs) : recs[i][2] = k

\* The rec_fn that the Duplicate Colors alert formats.  Loop 6 binds only
\* rec_key, so rec_fn is what loop 1 left in it: that loop ran to its end,
\* and loops 2 to 4 rebind rec_fn the same way.
AlertRecFn(recs) == recs[Len(recs)][1]

\* Lines 128-181 on the loaded records: how the submission goes on.
ProcessChecks(name, vid, recs) ==
    LET byName == FilenameChecks(name, recs)
        k == ColorKey(vid.frame)
    IN  IF byName # "Pass"
        THEN [outcome |-> byName, key |-> None, named |-> None]
        ELSE IF ~vid.ok
        THEN [outcome |-> "FingerprintFailed", key |-> None, named |-> None]
        ELSE IF ColorHit(k, recs)
        THEN [outcome |-> "DuplicateColors", key |-> k,
              named |-> AlertRecFn(recs)]
        ELSE [outcome |-> "Pass", key |-> k, named |-> None]

-----------------------------------------------------------------------------
(* The files the user selects *)

\* "2025-05-07_08-22-55 1132 (ChanX) My Show.mp4"
NameShow ==
    <<"2","0","2","5","-","0","5","-","0","7","_","0","8","-","2","2","-",
      "5","5"," ","1","1","3","2"," ","(","C","h","a","n","X",")"," ","M",
      "y"," ","S","h","o","w",".","m","p","4">>

\* "my show.mp4"
NameTitle ==
    <<"m","y"," ","s","h","o","w",".","m","p","4">>

\* "2025-05-07_08-22-55 7 B.mp4"
NameSameTime ==
    <<"2","0","2","5","-","0","5","-","0","7","_","0","8","-","2","2","-",
      "5","5"," ","7"," ","B",".","m","p","4">>

\* "2025-05-08_08-22-55 007.mp4"
NameZeroCode ==
    <<"2","0","2","5","-","0","5","-","0","8","_","0","8","-","2","2","-",
      "5","5"," ","0","0","7",".","m","p","4">>

\* "2025-05-09_08-22-55 7.mp4"
NameSameCode ==
    <<"2","0","2","5","-","0","5","-","0","9","_","0","8","-","2","2","-",
      "5","5"," ","7",".","m","p","4">>

\* " my show.mp4"
NameLeading ==
    <<" ","m","y"," ","s","h","o","w",".","m","p","4">>

\* "x|y.mp4"
NamePipe ==
    <<"x","|","y",".","m","p","4">>

\* "b.mp4 "
NameTrail ==
    <<"b",".","m","p","4"," ">>

\* "clip.avi"
NameClip ==
    <<"c","l","i","p",".","a","v","i">>

\* "/v/"
VideoDir ==
    <<"/","v","/">>

Filenames ==
    {NameShow, NameTitle, NameSameTime, NameZeroCode, NameSameCode,
     NameLeading, NameTrail, NamePipe, NameClip}

\* What get_selected_file returns: the path of one regular file.
Paths == {VideoDir \o name : name \in Filenames}

\* A 1920x1080 frame of one colour.
FrameA ==
    [w |-> 1920, h |-> 1080, bg |-> <<16, 32, 48>>, spot |-> <<0, 0>>,
     fg |-> <<16, 32, 48>>]

\* FrameA with another colour at the first sample point only.
FrameB ==
    [w |-> 1920, h |-> 1080, bg |-> <<16, 32, 48>>, spot |-> <<384, 216>>,
     fg |-> <<255, 0, 10>>]

\* A 1280x720 frame of one colour: the last column and the last row of
\* sample points lie outside it.
FrameSmall ==
    [w |-> 1280, h |-> 720, bg |-> <<16, 32, 48>>, spot |-> <<0, 0>>,
     fg |-> <<16, 32, 48>>]

NoFrame ==
    [w |-> 0, h |-> 0, bg |-> <<0, 0, 0>>, spot |-> <<0, 0>>,
     fg |-> <<0, 0, 0>>]

\* cap.read() on the file at a path: (ok, frame).  The files on disk do not
\* change while the program runs.
VideoAt(p) ==
    LET name == Basename(p)
    IN  IF name \in {NameShow, NameZeroCode, NameSameCode}
        THEN [ok |-> TRUE, frame |-> FrameA]
        ELSE IF name \in {NameSameTime, NameTrail}
        THEN [ok |-> TRUE, frame |-> FrameSmall]
        ELSE IF name = NameClip
        THEN [ok |-> FALSE, frame |-> NoFrame]
        ELSE [ok |-> TRUE, frame |-> FrameB]

-----------------------------------------------------------------------------
(* The state machine *)

InFlight == {t \in Threads : pc[t] \in {"started", "append"}}

\* A new worker thread takes the lowest slot whose thread is not running.
FreeSlot(t) ==
    /\ pc[t] \in {"idle", "done"}
    /\ \A u \in Threads : u < t => u \in InFlight

Init ==
    /\ file = <<>>
    /\ pc = [t \in Threads |-> "idle"]
    /\ path = [t \in Threads |-> <<>>]
    /\ records = [t \in Threads |-> <<>>]
    /\ key = [t \in Threads |-> None]
    /\ outcome = [t \in Threads |-> "None"]
    /\ named = [t \in Threads |-> None]
    /\ listening = TRUE

\* on_activate, lines 189-196, with one regular file selected: starts a
\* worker thread on process_video(sel).
on_activate(t) ==
    /\ listening
    /\ FreeSlot(t)
    /\ Len(file) + Cardinality(InFlight) <= MaxStored
    /\ \E sel \in Paths : path' = [path EXCEPT ![t] = sel]
    /\ pc' = [pc EXCEPT ![t] = "started"]
    /\ records' = [records EXCEPT ![t] = <<>>]
    /\ key' = [key EXCEPT ![t] = None]
    /\ outcome' = [outcome EXCEPT ![t] = "None"]
    /\ named' = [named EXCEPT ![t] = None]
    /\ UNCHANGED <<file, listening>>

\* What a worker thread that ended leaves of listening: an exception raised
\* in process_video ends the thread that on_activate started on line 196, not
\* the listener.
ListenerAfter(result) == listening

\* process_video, lines 117-181: one read of the record file, then the checks
\* on the thread's own records.  A return or a ValueError ends the thread and
\* its locals.
LoadAndCheck(t) ==
    /\ pc[t] = "started"
    /\ LET name == Basename(path[t])
           load == LoadRecords(file)
           res == ProcessChecks(name, VideoAt(path[t]), load.records)
       IN  IF load.error
           THEN /\ pc' = [pc EXCEPT ![t] = "done"]
                /\ outcome' = [outcome EXCEPT ![t] = "ValueError"]
                /\ listening' = ListenerAfter("ValueError")
                /\ UNCHANGED <<records, key, named>>
           ELSE IF res.outcome = "Pass"
           THEN /\ pc' = [pc EXCEPT ![t] = "append"]
                /\ records' = [records EXCEPT ![t] = load.records]
                /\ key' = [key EXCEPT ![t] = res.key]
                /\ UNCHANGED <<outcome, named, listening>>
           ELSE /\ pc' = [pc EXCEPT ![t] = "done"]
                /\ outcome' = [outcome EXCEPT ![t] = res.outcome]
                /\ named' = [named EXCEPT ![t] = res.named]
                /\ listening' = ListenerAfter(res.outcome)
                /\ UNCHANGED <<records, key>>
    /\ UNCHANGED <<file, path>>

\* process_video, lines 183-187: the append and the Done alert.
AppendStep(t) ==
    /\ pc[t] = "append"
    /\ file' = AppendRecord(file, Basename(path[t]), key[t])
    /\ pc' = [pc EXCEPT ![t] = "done"]
    /\ outcome' = [outcome EXCEPT ![t] = "Accepted"]
    /\ records' = [records EXCEPT ![t] = <<>>]
    /\ key' = [key EXCEPT ![t] = None]
    /\ listening' = ListenerAfter("Accepted")
    /\ UNCHANGED <<path, named>>

Next ==
    \E t \in Threads : on_activate(t) \/ LoadAndCheck(t) \/ AppendStep(t)

Spec == Init /\ [][Next]_vars

\* One submission at a time: the hotkey is pressed only when no worker runs.
SerialActivate(t) == InFlight = {} /\ on_activate(t)

NextSerial ==
    \E t \in Threads : SerialActivate(t) \/ LoadAndCheck(t) \/ AppendStep(t)

SpecSerial == Init /\ [][NextSerial]_vars

\* The record file as an earlier run or an editor left it: empty, or with a
\* line that holds no separator.
BlankLine == <<"\n">>
BareLine == NameClip \o <<"\n">>
GoodLine == RecordLine(NameShow, ColorKey(FrameA))

EditedFiles ==
    {<<>>, <<BlankLine>>, <<GoodLine, BareLine>>, <<BareLine, GoodLine>>,
     <<GoodLine, BlankLine>>}

InitEdited ==
    /\ file \in EditedFiles
    /\ pc = [t \in Threads |-> "idle"]
    /\ path = [t \in Threads |-> <<>>]
    /\ records = [t \in Threads |-> <<>>]
    /\ key = [t \in Threads |-> None]
    /\ outcome = [t \in Threads |-> "None"]
    /\ named = [t \in Threads |-> None]
    /\ listening = TRUE

SpecEdited == InitEdited /\ [][NextSerial]_vars

-----------------------------------------------------------------------------
(* Vocabulary of the properties *)

\* The records a load of the file f yields.
Stored(f) == LoadRecords(f).records

\* The candidate filename and fingerprint of thread t's submission.
Cand(t) == Basename(path[t])
CandKey(t) == ColorKey(VideoAt(path[t]).frame)

\* This step is thread t's read of the record file and its checks.
Checked(t) == pc[t] = "started" /\ pc'[t] # "started"

\* This step ends thread t's submission with outcome o.
EndsWith(t, o) == pc[t] # "done" /\ pc'[t] = "done" /\ outcome'[t] = o

Reason == <<"ExactFilename", "SameTimestamp", "SameCode", "SameTitle">>

Least(S) == CHOOSE x \in S : \A y \in S : x <= y

IsPrefix(a, b) == Len(a) <= Len(b) /\ SubSeq(b, 1, Len(a)) = a

\* Two characters are one letter in its two cases.
SameLetter(x, y) ==
    \E k \in 1..Len(Upper) : {x, y} = {Upper[k], LowerOf[k]}

EqualIgnoringCase(a, b) ==
    /\ Len(a) = Len(b)
    /\ \A i \in 1..Len(a) : a[i] = b[i] \/ SameLetter(a[i], b[i])

TimestampOf(name) == parse_name_parts(name).date
CodeOf(name) == parse_name_parts(name).code
TitleOf(name) == parse_name_parts(name).text

\* The stored filename rec matches the candidate cand by check c of 4.4.
MatchesBy(c, rec, cand) ==
    CASE c = 1 -> rec = cand
      [] c = 2 -> TimestampOf(cand) # None /\ TimestampOf(rec) = TimestampOf(cand)
      [] c = 3 -> CodeOf(cand) # None /\ CodeOf(rec) = CodeOf(cand)
      [] c = 4 -> /\ TitleOf(cand) # <<>>
                  /\ TitleOf(rec) # <<>>
                  /\ EqualIgnoringCase(TitleOf(rec), TitleOf(cand))

\* The checks for which some record of recs matches cand.
Hits(cand, recs) ==
    {c \in 1..4 : \E i \in 1..Len(recs) : MatchesBy(c, recs[i][1], cand)}

-----------------------------------------------------------------------------
(* C1 *)

\* C1: the rejection reason of the filename checks is that of the earliest
\* check, in the order ExactFilename, SameTimestamp, SameCode, SameTitle, for
\* which some stored record matches, wherever the matching records sit; with
\* no such check the submission is not rejected by a filename check.
C1_FirstCheckWins ==
    [][\A t \in Threads :
          (Checked(t) /\ ~LoadRecords(file).error) =>
             LET hits == Hits(Cand(t), Stored(file))
             IN  IF hits = {}
                 THEN \A c \in 1..4 : outcome'[t] # Reason[c]
                 ELSE EndsWith(t, Reason[Least(hits)])]_vars

\* ExactFilename was reported for a candidate that a later record matches by
\* exact filename and an earlier, different record matches by title.
C1_Witness ==
    /\ pc[1] = "done" /\ pc[2] = "idle"
    /\ outcome[1] = "ExactFilename"
    /\ \E i, j \in 1..Len(file) :
          /\ j < i
          /\ Stored(file)[i][1] = Cand(1)
          /\ Stored(file)[j][1] # Cand(1)
          /\ MatchesBy(4, Stored(file)[j][1], Cand(1))

-----------------------------------------------------------------------------
(* C2 *)

\* C2: the record file changes only in the step that ends a submission with
\* Accepted, which adds the one line of the candidate filename and the
\* candidate fingerprint after all lines; a submission that ends otherwise
\* leaves the file as it was; the file before a step is a prefix of the file
\* after it, and so are the loaded records.
C2_OnlyAcceptedAppends ==
    [][IF file' = file
       THEN \A t \in Threads : ~EndsWith(t, "Accepted")
       ELSE /\ IsPrefix(file, file')
            /\ IsPrefix(Stored(file), Stored(file'))
            /\ Len(Stored(file')) = Len(Stored(file)) + 1
            /\ \E t \in Threads :
                  /\ EndsWith(t, "Accepted")
                  /\ file' = file \o
                        <<Cand(t) \o <<"|">> \o CandKey(t) \o <<"\n">>>>
            /\ \A t \in Threads :
                  (pc[t] # "done" /\ pc'[t] = "done") => outcome'[t] = "Accepted"
      ]_vars

\* A submission ended in FingerprintFailed with two records in the file.
C2_Witness ==
    /\ pc[1] = "done" /\ outcome[1] = "FingerprintFailed"
    /\ Len(file) = 2

-----------------------------------------------------------------------------
(* C3 *)

\* C3: a candidate that no stored record matches by a filename check and
\* whose first frame is readable ends in DuplicateColors exactly when some
\* stored fingerprint is the candidate's fingerprint string, character for
\* character; otherwise it goes on to the append and ends Accepted.
C3_DuplicateColorsIffEqual ==
    [][\A t \in Threads :
          /\ (/\ Checked(t)
              /\ ~LoadRecords(file).error
              /\ Hits(Cand(t), Stored(file)) = {}
              /\ VideoAt(path[t]).ok) =>
                LET fp == CandKey(t)
                    recs == Stored(file)
                    same(a) == /\ Len(a) = Len(fp)
                               /\ \A k \in 1..Len(fp) : a[k] = fp[k]
                IN  IF \E i \in 1..Len(recs) : same(recs[i][2])
                    THEN EndsWith(t, "DuplicateColors")
                    ELSE pc'[t] = "append"
          /\ (pc[t] = "append" /\ pc'[t] # "append") => EndsWith(t, "Accepted")
      ]_vars

\* DuplicateColors for a candidate that passes the filename checks while two
\* records under different filenames hold its fingerprint.
C3_Witness ==
    \E t \in Threads :
       /\ pc[t] = "done" /\ outcome[t] = "DuplicateColors"
       /\ Hits(Cand(t), Stored(file)) = {}
       /\ \E i, j \in 1..Len(file) :
             /\ Stored(file)[i][1] # Stored(file)[j][1]
             /\ Stored(file)[i][2] = CandKey(t)
             /\ Stored(file)[j][2] = CandKey(t)

-----------------------------------------------------------------------------
(* C4 *)

\* Two submissions duplicate each other: same filename, timestamp, code,
\* title or fingerprint.
DuplicateSubmissions(p, q) ==
    \/ \E c \in 1..4 : MatchesBy(c, Basename(p), Basename(q))
    \/ /\ VideoAt(p).ok /\ VideoAt(q).ok
       /\ ColorKey(VideoAt(p).frame) = ColorKey(VideoAt(q).frame)

\* C4: of two submissions that duplicate each other at most one is appended.
C4_AtMostOneAppended ==
    \A t, u \in Threads :
       (/\ t # u
        /\ pc[t] = "done" /\ outcome[t] = "Accepted"
        /\ pc[u] = "done" /\ outcome[u] = "Accepted")
          => ~DuplicateSubmissions(path[t], path[u])

-----------------------------------------------------------------------------
(* C5 *)

\* C5: for a filename without "|", the load after the append yields the
\* records loaded before it followed by exactly (filename, fingerprint).
C5_RoundTrip ==
    [][\A t \in Threads :
          (EndsWith(t, "Accepted") /\ Find(Cand(t), "|", 1) = 0) =>
             Stored(file') = Append(Stored(file), <<Cand(t), CandKey(t)>>)
      ]_vars

-----------------------------------------------------------------------------
(* C6 *)

\* C6: the record a DuplicateColors rejection names is the first record in
\* store order whose fingerprint equals the candidate's.
C6_NamesFirstMatch ==
    [][\A t \in Threads :
          (Checked(t) /\ EndsWith(t, "DuplicateColors")) =>
             LET first == Least({i \in 1..Len(file) :
                                    Stored(file)[i][2] = CandKey(t)})
             IN  named'[t] = Stored(file)[first][1]]_vars

-----------------------------------------------------------------------------
(* C7 *)

\* A line of f holds no separator.
HasLineWithoutSeparator(f) ==
    \E i \in 1..Len(f) : \A k \in 1..Len(f[i]) : f[i][k] # "|"

\* C7: with a line without "|" in the file (an empty line too), the
\* submission ends at the load: it is not Accepted and never reaches the
\* append, the file stays as it is, and the listener keeps running.
C7_CorruptLineEndsSubmission ==
    [][\A t \in Threads :
          (Checked(t) /\ HasLineWithoutSeparator(file)) =>
             /\ pc'[t] = "done"
             /\ outcome'[t] \notin {"Accepted", "None"}
             /\ file' = file
             /\ listening']_vars

\* A submission ended at the load of a file with an empty line, and the
\* listener runs.
C7_Witness ==
    /\ pc[1] = "done" /\ outcome[1] = "ValueError"
    /\ \E i \in 1..Len(file) : file[i] = BlankLine
    /\ listening

-----------------------------------------------------------------------------
(* C8 *)

\* C8: a candidate with a non-empty title that no stored record matches by
\* exact filename, timestamp or code ends in SameTitle exactly when some
\* stored title is non-empty and equal to it ignoring letter case; a
\* candidate with an empty title never ends in SameTitle.
C8_TitleCollision ==
    [][\A t \in Threads :
          (Checked(t) /\ ~LoadRecords(file).error) =>
             LET cand == Cand(t)
                 recs == Stored(file)
             IN  /\ (TitleOf(cand) # <<>> /\ Hits(cand, recs) \cap {1, 2, 3} = {})
                       => (EndsWith(t, "SameTitle") <=>
                             \E i \in 1..Len(recs) :
                                /\ TitleOf(recs[i][1]) # <<>>
                                /\ EqualIgnoringCase(TitleOf(recs[i][1]),
                                                     TitleOf(cand)))
                 /\ TitleOf(cand) = <<>> => outcome'[t] # "SameTitle"]_vars

\* SameTitle for a candidate outside the structured pattern against a stored
\* filename inside it, the two titles differing in letter case.
C8_Witness ==
    \E t \in Threads :
       /\ pc[t] = "done" /\ outcome[t] = "SameTitle"
       /\ TimestampOf(Cand(t)) = None
       /\ \E i \in 1..Len(file) :
             /\ TimestampOf(Stored(file)[i][1]) # None
             /\ TitleOf(Stored(file)[i][1]) # TitleOf(Cand(t))
             /\ EqualIgnoringCase(TitleOf(Stored(file)[i][1]), TitleOf(Cand(t)))

-----------------------------------------------------------------------------
(* C9 *)

\* Two records are alike: same filename, parsed timestamp, parsed code,
\* non-empty title ignoring case, or fingerprint.
Alike(r, q) ==
    \/ \E c \in 1..4 : MatchesBy(c, r[1], q[1])
    \/ r[2] = q[2]

\* C9: no two records of the loaded store are alike.
C9_NoTwoAlike ==
    \A i, j \in 1..Len(file) :
       i < j => ~Alike(Stored(file)[i], Stored(file)[j])

-----------------------------------------------------------------------------
(* C10 *)

\* C10: a candidate outside the structured pattern never ends in
\* SameTimestamp or SameCode, whatever the store holds; and SameCode is
\* reported only when some stored code is the candidate's code as a string.
C10_AbsentNeverCollides ==
    [][\A t \in Threads :
          (Checked(t) /\ ~LoadRecords(file).error) =>
             /\ TimestampOf(Cand(t)) = None =>
                   outcome'[t] \notin {"SameTimestamp", "SameCode"}
             /\ outcome'[t] = "SameCode" =>
                   \E i \in 1..Len(file) :
                      CodeOf(Stored(file)[i][1]) = CodeOf(Cand(t))]_vars

\* A candidate outside the pattern was accepted after a record whose filename
\* is outside the pattern too.
C10_Witness ==
    /\ pc[1] = "done" /\ pc[2] = "idle"
    /\ outcome[1] = "Accepted"
    /\ TimestampOf(Cand(1)) = None
    /\ \E i \in 1..(Len(file) - 1) : TimestampOf(Stored(file)[i][1]) = None

=============================================================================
